---- MODULE Spec2Model ----
(***************************************************************************)
(* A model of acrcloud.py: the ACRCloudConsole client (signed management   *)
(* requests) and the ACRCloudStreamMonitor client (unsigned result         *)
(* retrieval), called from two call sites that may interleave.             *)
(*                                                                         *)
(* Library primitives (hmac/hashlib/base64/str.encode) are modelled as     *)
(* free constructors: the result records which primitive was applied to    *)
(* which arguments, so two results are equal exactly when the same         *)
(* primitive was applied to the same arguments.                            *)
(*                                                                         *)
(* The clock counts tenths of a second; str(time.time()) renders a reading *)
(* t as "<t div 10>.<t mod 10>", e.g. 10000 -> "1000.0".                  *)
(***************************************************************************)
EXTENDS Integers, Sequences, FiniteSets, TLC

VARIABLES console, monitor, ctor, now, calls

vars == <<console, monitor, ctor, now, calls>>

\* How many times the clock advances during a run.
MaxTicks == 1

\* The call sites (threads) that invoke client methods.
Sites == {"s1", "s2"}

\* The clock readings, in tenths of a second, from 1000.0 s on.
Times == 10000 .. (10000 + MaxTicks)

-----------------------------------------------------------------------------
(* Python and library primitives                                           *)

\* str(time.time()) for a clock reading of t tenths of a second.
str_time(t) == ToString(t \div 10) \o "." \o ToString(t % 10)

\* sep.join(parts) for a tuple of strings.
RECURSIVE join(_, _)
join(sep, parts) ==
    IF Len(parts) = 0 THEN ""
    ELSE IF Len(parts) = 1 THEN parts[1]
    ELSE parts[1] \o sep \o join(sep, Tail(parts))

\* str.encode(): the UTF-8 bytes of a string.
encode(s) == [utf8 |-> s]

\* hmac.new(key, msg, digestmod=hashlib.sha1).digest()
hmac_sha1_digest(key, msg) == [hmac |-> "sha1", key |-> key, msg |-> msg]

\* base64.b64encode(raw)
b64encode(raw) == [b64 |-> raw]

\* A keyword argument left out by the caller takes the signature's default.
arg(args, name, default) ==
    IF name \in DOMAIN args THEN args[name] ELSE default

\* json.dumps of a scalar: a str is quoted, an int is printed in decimal.
json_scalar(x) ==
    IF x.t = "str" THEN "\"" \o x.v \o "\"" ELSE ToString(x.v)

\* json.dumps of a dict, given as its items in insertion order.
RECURSIVE json_items(_)
json_items(items) ==
    IF Len(items) = 0 THEN ""
    ELSE LET one == "\"" \o items[1].k \o "\": " \o json_scalar(items[1])
         IN IF Len(items) = 1 THEN one
            ELSE one \o ", " \o json_items(Tail(items))

json_dict(d) == "{" \o json_items(d) \o "}"

\* json.dumps of a list of dicts.
RECURSIVE json_list_items(_)
json_list_items(l) ==
    IF Len(l) = 0 THEN ""
    ELSE IF Len(l) = 1 THEN json_dict(l[1])
    ELSE json_dict(l[1]) \o ", " \o json_list_items(Tail(l))

json_dumps(l) == "[" \o json_list_items(l) \o "]"

\* 'https://{}{}'.format(host, uri)
format_requrl(host, uri) == "https://" \o host \o uri

-----------------------------------------------------------------------------
(* ACRCloudConsole                                                         *)

\* ACRCloudConsole.__init__
ACRCloudConsole(account_access_key, account_access_secret) ==
    [access_key |-> account_access_key,
     access_secret |-> account_access_secret,
     host |-> "api.acrcloud.com",
     signature_version |-> "1"]

_sign_reused_hmac(self, string_to_sign) ==
    LET busy == {s \in Sites : calls[s].pc = "waiting"}
    IN b64encode(hmac_sha1_digest(self.access_secret,
           encode((IF busy = {} THEN "" ELSE "+") \o string_to_sign)))

\* ACRCloudConsole._sign
_sign(self, string_to_sign) ==
    b64encode(hmac_sha1_digest(self.access_secret, encode(string_to_sign)))

_headers_reread_clock(self, signature, timestamp) ==
    ("access-key" :> self.access_key
     @@ "signature-version" :> self.signature_version
     @@ "signature" :> signature
     @@ "timestamp" :> ToString(now \div 10))

\* ACRCloudConsole._headers
_headers(self, signature, timestamp) ==
    ("access-key" :> self.access_key
     @@ "signature-version" :> self.signature_version
     @@ "signature" :> signature
     @@ "timestamp" :> timestamp)

string_to_sign_reordered(self, http_method, uri, timestamp) ==
    join("\n", <<http_method, uri, self.signature_version, self.access_key, timestamp>>)

\* '\n'.join((http_method, uri, self.access_key, self.signature_version, timestamp))
string_to_sign_of(self, http_method, uri, timestamp) ==
    join("\n", <<http_method, uri, self.access_key, self.signature_version, timestamp>>)

signed_shared_timestamp(self, http_method, uri, t) ==
    LET busy == {s \in Sites : calls[s].pc = "waiting" /\ calls[s].client = "console"}
        timestamp == IF busy = {} THEN str_time(t)
                     ELSE calls[CHOOSE s \in busy : TRUE].frame.locals.timestamp
        string_to_sign == string_to_sign_of(self, http_method, uri, timestamp)
        signature == _sign(self, string_to_sign)
    IN [http_method |-> http_method,
        uri |-> uri,
        timestamp |-> timestamp,
        string_to_sign |-> string_to_sign,
        signature |-> signature,
        headers |-> _headers(self, signature, timestamp),
        requrl |-> format_requrl(self.host, uri)]

\* The locals every console method computes before it issues its request:
\* timestamp, string_to_sign, signature, headers and requrl.
signed(self, http_method, uri, t) ==
    LET timestamp == str_time(t)
        string_to_sign == string_to_sign_of(self, http_method, uri, timestamp)
        signature == _sign(self, string_to_sign)
    IN [http_method |-> http_method,
        uri |-> uri,
        timestamp |-> timestamp,
        string_to_sign |-> string_to_sign,
        signature |-> signature,
        headers |-> _headers(self, signature, timestamp),
        requrl |-> format_requrl(self.host, uri)]

\* requests.<verb>(requrl, data=data, headers=headers, verify=True)
with_data(L, verb, data) ==
    [locals |-> L,
     request |-> [verb |-> verb,
                  kwargs |-> [url |-> L.requrl, data |-> data,
                              headers |-> L.headers, verify |-> TRUE]]]

\* requests.<verb>(requrl, headers=headers, verify=True)
without_data(L, verb) ==
    [locals |-> L,
     request |-> [verb |-> verb,
                  kwargs |-> [url |-> L.requrl,
                              headers |-> L.headers, verify |-> TRUE]]]

default_buckets_shared ==
    LET given == {s \in Sites : /\ calls[s].pc # "idle"
                                /\ calls[s].op = "add_project"
                                /\ "buckets" \in DOMAIN calls[s].args}
    IN IF given = {}
       THEN << << [k |-> "name", t |-> "str", v |-> "ACRCloud Music"] >> >>
       ELSE calls[CHOOSE s \in given : TRUE].args.buckets

\* [{'name': 'ACRCloud Music'}], built anew by each call that needs it.
default_buckets == << << [k |-> "name", t |-> "str", v |-> "ACRCloud Music"] >> >>

add_project(self, args, t) ==
    LET buckets == arg(args, "buckets", default_buckets)
        L == signed(self, "POST", "/v1/projects", t)
        data == [name |-> args.project_name,
                 region |-> arg(args, "region", "ap-southeast-1"),
                 type |-> arg(args, "type_", "BM-ACRC"),
                 buckets |-> json_dumps(buckets),
                 audio_type |-> arg(args, "audio_type", 2),
                 external_id |-> arg(args, "external_id", "")]
    IN with_data(L, "POST", data)

update_project(self, args, t) ==
    LET buckets == arg(args, "buckets", default_buckets)
        L == signed(self, "POST", "/v1/projects/" \o args.project_name, t)
        data == [buckets |-> json_dumps(buckets)]
    IN with_data(L, "POST", data)

delete_project(self, args, t) ==
    LET L == signed(self, "DELETE", "/v1/projects/" \o args.project_name, t)
        data == [name |-> args.project_name]
    IN with_data(L, "DELETE", data)

get_project(self, args, t) ==
    LET L == signed(self, "GET", "/v1/projects/" \o args.project_name, t)
    IN without_data(L, "GET")

list_projects(self, args, t) ==
    LET L == signed(self, "GET", "/v1/projects", t)
    IN without_data(L, "GET")

add_monitor_flipped(self, args, t) ==
    LET L == signed(self, "POST", "/v1/monitor-streams", t)
        data == [project_name |-> args.project_name,
                 stream_name |-> args.stream_name,
                 url |-> args.url,
                 region |-> arg(args, "region", "ap-southeast-1"),
                 realtime |-> arg(args, "realtime", 0),
                 record |-> arg(args, "record", 1)]
    IN with_data(L, "POST", data)

add_monitor(self, args, t) ==
    LET L == signed(self, "POST", "/v1/monitor-streams", t)
        data == [project_name |-> args.project_name,
                 stream_name |-> args.stream_name,
                 url |-> args.url,
                 region |-> arg(args, "region", "ap-southeast-1"),
                 realtime |-> arg(args, "realtime", 1),
                 record |-> arg(args, "record", 0)]
    IN with_data(L, "POST", data)

update_monitor(self, args, t) ==
    LET L == signed(self, "PUT", "/v1/monitor-streams/" \o args.stream_id, t)
        data == [stream_name |-> args.stream_name,
                 url |-> args.url,
                 region |-> arg(args, "region", "ap-southeast-1"),
                 realtime |-> arg(args, "realtime", 1),
                 record |-> arg(args, "record", 0)]
    IN with_data(L, "PUT", data)

\* http_method is 'GET' and the request goes out through requests.put.
get_all_monitors(self, args, t) ==
    LET L == signed(self, "GET", "/v1/monitor-streams", t)
        data == [project_name |-> args.project_name]
    IN with_data(L, "PUT", data)

get_monitor(self, args, t) ==
    LET L == signed(self, "GET", "/v1/monitor-streams/" \o args.stream_id, t)
    IN without_data(L, "GET")

delete_monitor(self, args, t) ==
    LET L == signed(self, "DELETE", "/v1/monitor-streams/" \o args.stream_id, t)
    IN without_data(L, "DELETE")

\* '/v1/monitor-streams/{}/{}'.format(stream_id, action)
action_monitor(self, args, t) ==
    LET L == signed(self, "PUT",
                    "/v1/monitor-streams/" \o args.stream_id \o "/" \o args.action, t)
    IN without_data(L, "PUT")

pause_monitor_as_restart(self, args, t) ==
    action_monitor(self, [stream_id |-> args.stream_id, action |-> "restart"], t)

pause_monitor(self, args, t) ==
    action_monitor(self, [stream_id |-> args.stream_id, action |-> "pause"], t)

restart_monitor(self, args, t) ==
    action_monitor(self, [stream_id |-> args.stream_id, action |-> "restart"], t)

-----------------------------------------------------------------------------
(* ACRCloudStreamMonitor                                                   *)

\* ACRCloudStreamMonitor.__init__
ACRCloudStreamMonitor(project_access_key, stream_id) ==
    [access_key |-> project_access_key, stream_id |-> stream_id]

\* requests.get(requrl)
plain_get(requrl) == [request |-> [verb |-> "GET", kwargs |-> [url |-> requrl]]]

\* 'https://api.acrcloud.com/v1/monitor-streams/{}/results?access_key={}'
results_url(self) ==
    "https://api.acrcloud.com/v1/monitor-streams/" \o self.stream_id
        \o "/results?access_key=" \o self.access_key

last_results(self, args) == plain_get(results_url(self))

current_results(self, args) == plain_get(results_url(self) \o "&type=current")

multiple_last_results(self, args) ==
    plain_get(results_url(self) \o "&limit=" \o ToString(args.limit))

day_results(self, args) == plain_get(results_url(self) \o "&date=" \o args.date)

month_results(self, args) ==
    plain_get("https://monitoring-result.acrcloud.com/" \o self.access_key
                  \o "/" \o self.stream_id \o "/" \o args.month \o ".zip")

period_results(self, args) ==
    plain_get(results_url(self) \o "&begin_time=" \o args.begin_time
                  \o "&end_time=" \o arg(args, "end_time", ""))

-----------------------------------------------------------------------------
(* The transport and the tail of every method                              *)

\* What the server may answer: a status code, the encoding requests guessed
\* from the reply, and the body as each encoding decodes it.
Responses ==
    {[status_code |-> 200, encoding |-> "ISO-8859-1",
      content |-> ("utf-8" :> "{\"message\": \"success\"}"
                   @@ "ISO-8859-1" :> "{\"message\": \"success\"}")],
     [status_code |-> 401, encoding |-> "ISO-8859-1",
      content |-> ("utf-8" :> "{\"error\": \"signature e\"}"
                   @@ "ISO-8859-1" :> "{\"error\": \"signature A(c)\"}")]}

\* What requests may raise instead of answering.
TransportErrors == {"ConnectionError"}

\* response.text: the body decoded with response.encoding.
text(response) == response.content[response.encoding]

none == [kind |-> "none"]

finish_retrying(c, outcome) ==
    IF outcome.kind = "error" \/ outcome.response.status_code # 200
    THEN IF Len(c.sent) < 2
         THEN [c EXCEPT !.sent = Append(c.sent, c.frame.request)]
         ELSE [c EXCEPT !.pc = "raised", !.outcome = outcome]
    ELSE [c EXCEPT !.pc = "returned", !.outcome = outcome,
                   !.result = [kind |-> "text",
                               value |-> text([outcome.response EXCEPT !.encoding = "utf-8"])]]

\* The tail of a method once requests has answered or raised:
\*     response.encoding = 'utf-8'; return response.text
\* (month_results returns the response itself); an exception raised by
\* requests leaves the method as it is.
finish(c, outcome) ==
    IF outcome.kind = "error"
    THEN [c EXCEPT !.pc = "raised", !.outcome = outcome]
    ELSE IF c.op = "month_results"
    THEN [c EXCEPT !.pc = "returned", !.outcome = outcome,
                   !.result = [kind |-> "response", value |-> outcome.response]]
    ELSE [c EXCEPT !.pc = "returned", !.outcome = outcome,
                   !.result = [kind |-> "text",
                               value |-> text([outcome.response EXCEPT !.encoding = "utf-8"])]]

-----------------------------------------------------------------------------
(* The arguments the call sites pass                                       *)

NoArgs == [x \in {} |-> x]

custom_buckets ==
    << << [k |-> "id", t |-> "int", v |-> 7],
          [k |-> "name", t |-> "str", v |-> "ACRCloud Chinese TV"] >> >>

AddProjectArgs ==
    {[project_name |-> "p1"],
     [project_name |-> "p2", type_ |-> "AVR", buckets |-> custom_buckets,
      audio_type |-> 1, external_id |-> "spotify", region |-> "eu-west-1"]}

UpdateProjectArgs ==
    {[project_name |-> "p1"], [project_name |-> "p1", buckets |-> custom_buckets]}

ProjectArgs == {[project_name |-> "p1"]}

AddMonitorArgs ==
    {[project_name |-> "p1", stream_name |-> "96fm", url |-> "http://r/96fm.mp3"],
     [project_name |-> "p1", stream_name |-> "96fm", url |-> "http://r/96fm.mp3",
      region |-> "eu-west-1", realtime |-> 0, record |-> 1]}

UpdateMonitorArgs ==
    {[stream_id |-> "11396", stream_name |-> "96fm", url |-> "http://r/96fm.mp3",
      region |-> "us-west-2", realtime |-> 0, record |-> 1]}

StreamArgs == {[stream_id |-> "11396"]}

ActionArgs == {[stream_id |-> "11396", action |-> a] : a \in {"pause", "restart"}}

PeriodArgs ==
    {[begin_time |-> "20200101000000"],
     [begin_time |-> "20200101000000", end_time |-> "20200101010000"]}

-----------------------------------------------------------------------------
(* The state machine                                                       *)

Init ==
    /\ ctor \in {[account_access_key |-> "K1", account_access_secret |-> "abc",
                  project_access_key |-> "PK", stream_id |-> "11396"],
                 [account_access_key |-> "K2", account_access_secret |-> "xyz",
                  project_access_key |-> "PK", stream_id |-> "11551"]}
    /\ console = ACRCloudConsole(ctor.account_access_key, ctor.account_access_secret)
    /\ monitor = ACRCloudStreamMonitor(ctor.project_access_key, ctor.stream_id)
    /\ now = 10000
    /\ calls = [s \in Sites |-> [pc |-> "idle"]]

\* Site s enters method op of a client; the method runs up to the point
\* where its request is with the transport.
Start(s, client, op, args, frame) ==
    /\ calls[s].pc \in {"idle", "returned", "raised"}
    /\ calls' = [calls EXCEPT ![s] =
                    [pc |-> "waiting", client |-> client, op |-> op, args |-> args,
                     t |-> now, frame |-> frame, sent |-> <<frame.request>>,
                     outcome |-> none, result |-> none]]
    /\ UNCHANGED <<console, monitor, ctor, now>>

Call_add_project(s) ==
    \E a \in AddProjectArgs :
        Start(s, "console", "add_project", a, add_project(console, a, now))

Call_update_project(s) ==
    \E a \in UpdateProjectArgs :
        Start(s, "console", "update_project", a, update_project(console, a, now))

Call_delete_project(s) ==
    \E a \in ProjectArgs :
        Start(s, "console", "delete_project", a, delete_project(console, a, now))

Call_get_project(s) ==
    \E a \in ProjectArgs :
        Start(s, "console", "get_project", a, get_project(console, a, now))

Call_list_projects(s) ==
    Start(s, "console", "list_projects", NoArgs, list_projects(console, NoArgs, now))

Call_add_monitor(s) ==
    \E a \in AddMonitorArgs :
        Start(s, "console", "add_monitor", a, add_monitor(console, a, now))

Call_update_monitor(s) ==
    \E a \in UpdateMonitorArgs :
        Start(s, "console", "update_monitor", a, update_monitor(console, a, now))

Call_get_all_monitors(s) ==
    \E a \in ProjectArgs :
        Start(s, "console", "get_all_monitors", a, get_all_monitors(console, a, now))

Call_get_monitor(s) ==
    \E a \in StreamArgs :
        Start(s, "console", "get_monitor", a, get_monitor(console, a, now))

Call_delete_monitor(s) ==
    \E a \in StreamArgs :
        Start(s, "console", "delete_monitor", a, delete_monitor(console, a, now))

Call_action_monitor(s) ==
    \E a \in ActionArgs :
        Start(s, "console", "action_monitor", a, action_monitor(console, a, now))

Call_pause_monitor(s) ==
    \E a \in StreamArgs :
        Start(s, "console", "pause_monitor", a, pause_monitor(console, a, now))

Call_restart_monitor(s) ==
    \E a \in StreamArgs :
        Start(s, "console", "restart_monitor", a, restart_monitor(console, a, now))

Call_last_results(s) ==
    Start(s, "monitor", "last_results", NoArgs, last_results(monitor, NoArgs))

Call_current_results(s) ==
    Start(s, "monitor", "current_results", NoArgs, current_results(monitor, NoArgs))

Call_multiple_last_results(s) ==
    \E a \in {[limit |-> 100]} :
        Start(s, "monitor", "multiple_last_results", a, multiple_last_results(monitor, a))

Call_day_results(s) ==
    \E a \in {[date |-> "20200101"]} :
        Start(s, "monitor", "day_results", a, day_results(monitor, a))

Call_month_results(s) ==
    \E a \in {[month |-> "202001"]} :
        Start(s, "monitor", "month_results", a, month_results(monitor, a))

Call_period_results(s) ==
    \E a \in PeriodArgs :
        Start(s, "monitor", "period_results", a, period_results(monitor, a))

\* requests answers the request of site s, with any status.
Respond(s) ==
    /\ calls[s].pc = "waiting"
    /\ \E r \in Responses :
          calls' = [calls EXCEPT ![s] = finish(calls[s], [kind |-> "response", response |-> r])]
    /\ UNCHANGED <<console, monitor, ctor, now>>

\* requests raises instead of answering the request of site s.
Fail(s) ==
    /\ calls[s].pc = "waiting"
    /\ \E e \in TransportErrors :
          calls' = [calls EXCEPT ![s] = finish(calls[s], [kind |-> "error", error |-> e])]
    /\ UNCHANGED <<console, monitor, ctor, now>>

\* The wall clock advances.
Tick ==
    /\ now + 1 \in Times
    /\ now' = now + 1
    /\ UNCHANGED <<console, monitor, ctor, calls>>

Next ==
    \/ \E s \in Sites :
        \/ Call_add_project(s)
        \/ Call_update_project(s)
        \/ Call_delete_project(s)
        \/ Call_get_project(s)
        \/ Call_list_projects(s)
        \/ Call_add_monitor(s)
        \/ Call_update_monitor(s)
        \/ Call_get_all_monitors(s)
        \/ Call_get_monitor(s)
        \/ Call_delete_monitor(s)
        \/ Call_action_monitor(s)
        \/ Call_pause_monitor(s)
        \/ Call_restart_monitor(s)
        \/ Call_last_results(s)
        \/ Call_current_results(s)
        \/ Call_multiple_last_results(s)
        \/ Call_day_results(s)
        \/ Call_month_results(s)
        \/ Call_period_results(s)
        \/ Respond(s)
        \/ Fail(s)
    \/ Tick

Spec == Init /\ [][Next]_vars

-----------------------------------------------------------------------------
(* What the claims are stated over                                         *)

\* The sites whose current (or last) call is a console method.
ConsoleCalls == {s \in Sites : calls[s].pc # "idle" /\ calls[s].client = "console"}

\* The operation table of the specification: method and path per operation.
TableMethod(op) ==
    CASE op \in {"add_project", "update_project", "add_monitor"} -> "POST"
      [] op \in {"delete_project", "delete_monitor"} -> "DELETE"
      [] op \in {"get_project", "list_projects", "get_all_monitors", "get_monitor"} -> "GET"
      [] op \in {"update_monitor", "action_monitor", "pause_monitor", "restart_monitor"} -> "PUT"

TablePath(op, args) ==
    CASE op \in {"add_project", "list_projects"} -> "/v1/projects"
      [] op \in {"update_project", "delete_project", "get_project"} ->
            "/v1/projects/" \o args.project_name
      [] op \in {"add_monitor", "get_all_monitors"} -> "/v1/monitor-streams"
      [] op \in {"update_monitor", "get_monitor", "delete_monitor"} ->
            "/v1/monitor-streams/" \o args.stream_id
      [] op = "action_monitor" ->
            "/v1/monitor-streams/" \o args.stream_id \o "/" \o args.action
      [] op = "pause_monitor" -> "/v1/monitor-streams/" \o args.stream_id \o "/pause"
      [] op = "restart_monitor" -> "/v1/monitor-streams/" \o args.stream_id \o "/restart"

HeaderNames == {"access-key", "signature-version", "signature", "timestamp"}

\* The string a server derives from a received request whose path is p.
Rederived(r, p) ==
    r.verb \o "\n" \o p \o "\n" \o r.kwargs.headers["access-key"] \o "\n"
        \o r.kwargs.headers["signature-version"] \o "\n" \o r.kwargs.headers["timestamp"]

\* C1: in every console operation the method and path in the signed string are
\* those of the request issued, so the string a server re-derives from the
\* received request is the string that was signed.
C1_SignedMatchesIssued ==
    \A s \in ConsoleCalls :
        LET c == calls[s]
            r == c.frame.request
            L == c.frame.locals
        IN /\ r.verb = L.http_method
           /\ r.kwargs.url = "https://api.acrcloud.com" \o L.uri
           /\ Rederived(r, L.uri) = L.string_to_sign

\* C2: every console operation issues its request with the method and path of
\* the operation table.
C2_TableMethodAndPath ==
    \A s \in ConsoleCalls :
        LET c == calls[s]
            r == c.frame.request
        IN /\ r.verb = TableMethod(c.op)
           /\ r.kwargs.url = "https://api.acrcloud.com" \o TablePath(c.op, c.args)

\* C3: the timestamp is taken once per call; the headers are exactly access-key,
\* signature-version, signature and timestamp; the timestamp header is the last
\* field of the signed message; access-key is the client's key,
\* signature-version is '1' and signature signs that call's message.
C3_Headers ==
    \A s \in ConsoleCalls :
        LET c == calls[s]
            h == c.frame.request.kwargs.headers
            L == c.frame.locals
        IN /\ DOMAIN h = HeaderNames
           /\ h["timestamp"] = str_time(c.t)
           /\ h["access-key"] = ctor.account_access_key
           /\ h["signature-version"] = "1"
           /\ h["signature"].b64.msg.utf8 =
                 L.http_method \o "\n" \o L.uri \o "\n" \o h["access-key"] \o "\n"
                     \o h["signature-version"] \o "\n" \o h["timestamp"]
           /\ h["signature"].b64.key = ctor.account_access_secret

C3_Witness ==
    \E s \in ConsoleCalls :
        /\ calls[s].t = 10001
        /\ calls[s].op = "update_monitor"
        /\ calls[s].frame.request.kwargs.headers["timestamp"] = "1000.1"

\* C4: the signed message is method, path, access key, signature version and
\* timestamp, in that order, joined by single newlines, and the signature is
\* base64(HMAC-SHA1(access_secret, message)); with secret abc, key K1 and time
\* 1000.0, list_projects signs "GET\n/v1/projects\nK1\n1\n1000.0".
C4_CanonicalMessage ==
    \A s \in ConsoleCalls :
        LET c == calls[s]
            sig == c.frame.request.kwargs.headers["signature"]
        IN /\ sig = [b64 |-> [hmac |-> "sha1",
                              key |-> ctor.account_access_secret,
                              msg |-> [utf8 |->
                                  TableMethod(c.op) \o "\n" \o TablePath(c.op, c.args)
                                      \o "\n" \o ctor.account_access_key \o "\n" \o "1"
                                      \o "\n" \o str_time(c.t)]]]
           /\ (c.op = "list_projects" /\ ctor.account_access_key = "K1" /\ c.t = 10000)
                  => /\ sig.b64.msg.utf8 = "GET\n/v1/projects\nK1\n1\n1000.0"
                     /\ sig.b64.key = "abc"

C4_Witness ==
    \E s \in ConsoleCalls :
        /\ calls[s].op = "list_projects"
        /\ ctor.account_access_key = "K1"
        /\ calls[s].t = 10000
        /\ calls[s].frame.locals.string_to_sign = "GET\n/v1/projects\nK1\n1\n1000.0"

C6_OneRequestNoRetry ==
    \A s \in ConsoleCalls :
        LET c == calls[s]
        IN /\ c.sent = <<c.frame.request>>
           /\ c.pc = "waiting" => c.outcome = none /\ c.result = none
           /\ c.pc = "returned" =>
                 /\ c.outcome.kind = "response"
                 /\ c.result = [kind |-> "text",
                                value |-> c.outcome.response.content["utf-8"]]
           /\ c.pc = "raised" =>
                 /\ c.outcome.kind = "error"
                 /\ c.outcome.error \in TransportErrors
                 /\ c.result = none

C6_Witness ==
    \E s1 \in ConsoleCalls : \E s2 \in ConsoleCalls :
        /\ calls[s1].pc = "returned"
        /\ calls[s1].outcome.response.status_code = 401
        /\ calls[s1].result.value = "{\"error\": \"signature e\"}"
        /\ calls[s2].pc = "raised"

\* C7: no method changes instance state: the console's and the monitor's
\* attributes stay as constructed, and the signature and timestamp header of
\* every call in flight come from that call's own timestamp and arguments.
C7_NoInstanceMutation ==
    /\ console = [access_key |-> ctor.account_access_key,
                  access_secret |-> ctor.account_access_secret,
                  host |-> "api.acrcloud.com",
                  signature_version |-> "1"]
    /\ monitor = [access_key |-> ctor.project_access_key, stream_id |-> ctor.stream_id]
    /\ \A s \in ConsoleCalls :
          LET c == calls[s]
              h == c.frame.request.kwargs.headers
          IN /\ h["timestamp"] = str_time(c.t)
             /\ h["signature"] =
                   b64encode(hmac_sha1_digest(ctor.account_access_secret,
                       encode(join("\n", <<c.frame.locals.http_method,
                                           TablePath(c.op, c.args),
                                           ctor.account_access_key, "1",
                                           str_time(c.t)>>))))

C7_Witness ==
    /\ calls["s1"].pc = "waiting"
    /\ calls["s2"].pc = "waiting"
    /\ calls["s1"].client = "console"
    /\ calls["s2"].client = "console"
    /\ calls["s1"].t = 10000
    /\ calls["s2"].t = 10001

\* C8: add_project without buckets sends the JSON text of
\* [{"name": "ACRCloud Music"}] as 'buckets', also after calls that passed
\* their own bucket lists.
C8_DefaultBuckets ==
    \A s \in ConsoleCalls :
        (calls[s].op = "add_project" /\ "buckets" \notin DOMAIN calls[s].args)
            => calls[s].frame.request.kwargs.data.buckets = "[{\"name\": \"ACRCloud Music\"}]"

C8_Witness ==
    /\ calls["s1"].pc = "returned"
    /\ calls["s1"].op = "add_project"
    /\ "buckets" \in DOMAIN calls["s1"].args
    /\ calls["s1"].t = 10000
    /\ calls["s2"].pc = "waiting"
    /\ calls["s2"].op = "add_project"
    /\ "buckets" \notin DOMAIN calls["s2"].args
    /\ calls["s2"].t = 10001

\* Two requests that agree in everything but the timestamp and signature headers.
SameButTimestampAndSignature(r1, r2) ==
    /\ r1.verb = r2.verb
    /\ DOMAIN r1.kwargs = DOMAIN r2.kwargs
    /\ r1.kwargs.url = r2.kwargs.url
    /\ r1.kwargs.verify = r2.kwargs.verify
    /\ r1.kwargs.headers["access-key"] = r2.kwargs.headers["access-key"]
    /\ r1.kwargs.headers["signature-version"] = r2.kwargs.headers["signature-version"]

\* C9: pause_monitor(id) and action_monitor(id, "pause") send the same request
\* (PUT /v1/monitor-streams/{id}/pause, same access-key and signature-version,
\* no body), restart_monitor(id) and action_monitor(id, "restart") likewise, and
\* with the same timestamp the signature is the same too.
C9_AliasesOfActionMonitor ==
    \A s1 \in ConsoleCalls :
        LET c1 == calls[s1]
            r1 == c1.frame.request
            action == IF c1.op = "pause_monitor" THEN "pause" ELSE "restart"
        IN c1.op \in {"pause_monitor", "restart_monitor"} =>
            /\ r1.verb = "PUT"
            /\ r1.kwargs.url = "https://api.acrcloud.com/v1/monitor-streams/"
                                   \o c1.args.stream_id \o "/" \o action
            /\ DOMAIN r1.kwargs = {"url", "headers", "verify"}
            /\ \A s2 \in ConsoleCalls :
                  LET c2 == calls[s2]
                  IN (/\ c2.op = "action_monitor"
                      /\ c2.args = [stream_id |-> c1.args.stream_id, action |-> action])
                       => /\ SameButTimestampAndSignature(r1, c2.frame.request)
                          /\ c1.t = c2.t => r1 = c2.frame.request

C9_Witness ==
    /\ calls["s1"].pc # "idle"
    /\ calls["s2"].pc # "idle"
    /\ calls["s1"].op = "pause_monitor"
    /\ calls["s2"].op = "action_monitor"
    /\ calls["s2"].args.action = "pause"
    /\ calls["s1"].t = calls["s2"].t
    /\ calls["s1"].frame.request = calls["s2"].frame.request

\* C10: add_monitor without realtime, record and region sends realtime=1,
\* record=0 and region 'ap-southeast-1'; values the caller gives are sent as
\* given.
C10_AddMonitorDefaults ==
    \A s \in ConsoleCalls :
        LET c == calls[s]
            d == c.frame.request.kwargs.data
        IN c.op = "add_monitor" =>
            /\ d.realtime = IF "realtime" \in DOMAIN c.args THEN c.args.realtime ELSE 1
            /\ d.record = IF "record" \in DOMAIN c.args THEN c.args.record ELSE 0
            /\ d.region = IF "region" \in DOMAIN c.args THEN c.args.region
                          ELSE "ap-southeast-1"

C10_Witness ==
    /\ calls["s1"].pc # "idle"
    /\ calls["s1"].op = "add_monitor"
    /\ DOMAIN calls["s1"].args = {"project_name", "stream_name", "url"}
    /\ calls["s1"].frame.request.kwargs.data.realtime = 1
    /\ calls["s1"].frame.request.kwargs.data.record = 0
    /\ calls["s2"].pc # "idle"
    /\ calls["s2"].op = "add_monitor"
    /\ calls["s2"].frame.request.kwargs.data.realtime = 0
    /\ calls["s2"].frame.request.kwargs.data.record = 1
    /\ calls["s2"].frame.request.kwargs.data.region = "eu-west-1"

====
